---- MODULE Spec2Model ----
(***************************************************************************)
(* A model of the docAgent loan-document pipeline:                         *)
(*   stage 1  automation/1_recognize_and_place_docs.py  (classify, route)  *)
(*   stage 2  automation/2_recognize_and_get_json.py    (extract, parse)   *)
(*   stage 3  automation/3_correct_the_json.py          (repair)           *)
(*   flatten_json of automation/5_auto_form_filler_with_schema.py          *)
(*                                                                         *)
(* Texts are TLA+ strings, handled character by character with SubSeq,     *)
(* Head, Tail and \o.  The TLA+ lexer admits no grave accent (U+0060) in   *)
(* a string literal, so that one character is written BT below.            *)
(***************************************************************************)
EXTENDS Naturals, Sequences, FiniteSets, TLC

VARIABLES
    pc,             \* stage 1: position of the script
    loan_type,      \* stage 1: the loan_type argument
    files_to_check, \* stage 1: the rest of the list the loop walks
    cur,            \* stage 1: the file in hand and what recognize_document returned
    keyPresent,     \* whether the oracle API key is in the environment
    ext,            \* document -> extension of its source file name
    src,            \* documents still at their source path
    tree,           \* organized_docs: path -> document held at that path
    tree0,          \* history: the tree as the run found it
    routed,         \* history: what each categorize_and_move call did
    pc2,            \* stage 2: position of the script
    folders_left,   \* stage 2: the rest of FOLDERS
    files_left,     \* stage 2: the rest of the folder's files
    folder_data,    \* stage 2: the entries of the folder in hand
    json_output,    \* json_output/: unit name -> record set
    answered,       \* history: the oracle's answers in stage 2
    pc3,            \* stage 3: position of the script
    pass,           \* stage 3: 1, or 2 for a run over the output of the first
    units_left,     \* stage 3: the rest of the json files
    json_corrected, \* json_corrected/: unit name -> record set
    first_pass,     \* history: json_corrected as the first run left it
    pc5,            \* stage 5: position of the script at its flatten_json call
    loaded,         \* stage 5: data, the structured value json.load returned
    flattened,      \* stage 5: what flatten_json returned
    pcm,            \* driver: position of main.py
    step,           \* driver: index in steps of the step in hand
    started,        \* history: the steps the driver started, in order
    exited          \* history: the steps whose process exited, with the return code

s1vars == <<pc, loan_type, files_to_check, cur>>
fsvars == <<ext, src, tree, tree0, routed>>
s2vars == <<pc2, folders_left, files_left, folder_data, answered>>
s3vars == <<pc3, pass, units_left, json_corrected, first_pass>>
s5vars == <<pc5, loaded, flattened>>
mvars == <<pcm, step, started, exited>>
jsvars == <<s2vars, json_output, s3vars, s5vars, mvars>>
vars == <<s1vars, keyPresent, fsvars, jsvars>>

----------------------------------------------------------------------------
(* Bounds *)

MaxDocs == 3        \* files in the input folder
MaxCalls == 3       \* categorize_and_move calls in a row
MaxParts == 2       \* pieces a document-type label is put together from
MaxFiles == 2       \* files in the organized tree that stage 2 walks
MaxEntries == 2     \* entries of a record set that stage 3 repairs

----------------------------------------------------------------------------
(* Strings *)

UPPER == "ABCDEFGHIJKLMNOPQRSTUVWXYZ"
LOWER == "abcdefghijklmnopqrstuvwxyz"
DIGITS == "0123456789"
WHITESPACE == " \n\t\r"

Ch(s, i) == SubSeq(s, i, i)

Chars(s) == {Ch(s, i) : i \in 1..Len(s)}

UpperChars == Chars(UPPER)
SafeChars == Chars(LOWER) \cup Chars(DIGITS) \cup {"_"}
SpaceChars == Chars(WHITESPACE)

\* Python: k in s
Contains(s, k) == \E i \in 1..(Len(s) - Len(k) + 1) : SubSeq(s, i, i + Len(k) - 1) = k

LowerOf == [c \in UpperChars |-> Ch(LOWER, CHOOSE i \in 1..Len(UPPER) : Ch(UPPER, i) = c)]

LowerCh(c) == IF c \in UpperChars THEN LowerOf[c] ELSE c

\* Python: s.lower()
RECURSIVE lower(_)
lower(s) == IF s = "" THEN "" ELSE LowerCh(Head(s)) \o lower(Tail(s))

\* Python: s.replace(a, b) for a single character a
RECURSIVE replace(_, _, _)
replace(s, a, b) == IF s = "" THEN ""
                    ELSE (IF Head(s) = a THEN b ELSE Head(s)) \o replace(Tail(s), a, b)

RECURSIVE lstrip(_)
lstrip(s) == IF s # "" /\ Head(s) \in SpaceChars THEN lstrip(Tail(s)) ELSE s

RECURSIVE rstrip(_)
rstrip(s) == IF s # "" /\ Ch(s, Len(s)) \in SpaceChars
             THEN rstrip(SubSeq(s, 1, Len(s) - 1)) ELSE s

\* Python: s.strip()
strip(s) == rstrip(lstrip(s))

\* Python: s.split(c)[-1], the text after the last c (all of s when there is none)
after_last(s, c) ==
    LET at == {i \in 1..Len(s) : Ch(s, i) = c} IN
    IF at = {} THEN s
    ELSE SubSeq(s, (CHOOSE i \in at : \A j \in at : j <= i) + 1, Len(s))

\* Python: str(n) for n >= 0
RECURSIVE str(_)
str(n) == IF n < 10 THEN Ch(DIGITS, n + 1)
          ELSE str(n \div 10) \o Ch(DIGITS, (n % 10) + 1)

\* Python: re.sub(r'[^a-z0-9_]', '', s)
RECURSIVE keep_safe(_)
keep_safe(s) == IF s = "" THEN ""
                ELSE (IF Head(s) \in SafeChars THEN Head(s) ELSE "") \o keep_safe(Tail(s))

----------------------------------------------------------------------------
(* Stage 1: keyword tables *)

IDENTITY_PROOF == {"voter id", "passport", "driving license", "pan card", "employee id"}
ADDRESS_PROOF == {"passport", "ration card", "voter id", "employee id",
                  "driving license", "telephone bill", "gas bill", "aadhaar", "aadhar card"}
AGE_PROOF == {"school leaving certificate", "passport", "driving license", "voter id",
              "birth certificate", "lic policy", "pan card", "aadhaar", "aadhar card"}
KYC_DOCS == IDENTITY_PROOF \cup ADDRESS_PROOF \cup AGE_PROOF
INCOME_DOCS == {"salary slip", "form 16", "bank statement", "income tax return", "payslip"}
PROPERTY_DOCS == {"sale deed", "agreement", "property tax", "electricity bill",
                  "possession letter", "allotment letter"}
BUSINESS_PROOF == {"gst certificate", "shop act license", "partnership deed",
                   "udhyam registration"}

Categories == {"KYC Docs", "Income Docs", "Property Docs", "Business Proof", "Others"}

\* Python: any(x in s for x in table)
any_in(s, table) == \E x \in table : Contains(s, x)

\* a slip: the label is matched as given, not lower-cased
target_folder_as_given(doc_type) ==
    IF any_in(doc_type, KYC_DOCS) THEN "KYC Docs"
    ELSE IF any_in(doc_type, INCOME_DOCS) THEN "Income Docs"
    ELSE IF any_in(doc_type, PROPERTY_DOCS) THEN "Property Docs"
    ELSE IF any_in(doc_type, BUSINESS_PROOF) THEN "Business Proof"
    ELSE "Others"

\* categorize_and_move, "Detect category"
target_folder(doc_type) ==
    LET doc_type_lower == lower(doc_type) IN
    IF any_in(doc_type_lower, KYC_DOCS) THEN "KYC Docs"
    ELSE IF any_in(doc_type_lower, INCOME_DOCS) THEN "Income Docs"
    ELSE IF any_in(doc_type_lower, PROPERTY_DOCS) THEN "Property Docs"
    ELSE IF any_in(doc_type_lower, BUSINESS_PROOF) THEN "Business Proof"
    ELSE "Others"

sanitize_filename(name) == keep_safe(replace(lower(name), " ", "_"))

----------------------------------------------------------------------------
(* Stage 1: the organized tree and categorize_and_move *)

\* A path of organized_docs is <<loan_type, category, file name>>.
names_in(t, loan, folder) == {p[3] : p \in {q \in DOMAIN t : q[1] = loan /\ q[2] = folder}}

\* the while loop of categorize_and_move, entered with counter already raised
RECURSIVE next_free(_, _, _, _)
next_free(names, clean_name, e, counter) ==
    IF (clean_name \o "_" \o str(counter) \o e) \in names
    THEN next_free(names, clean_name, e, counter + 1)
    ELSE clean_name \o "_" \o str(counter) \o e

\* a slip: the existence check is left out
new_filename_unchecked(names, clean_name, e) == clean_name \o e

\* a slip: counter = 1, so the first repeated name gets _1
new_filename_from_one(names, clean_name, e) ==
    IF (clean_name \o e) \in names THEN next_free(names, clean_name, e, 1)
    ELSE clean_name \o e

\* categorize_and_move, "Sanitize filename and handle duplicates", given the
\* sanitized name: the first of <name><ext>, <name>_2<ext>, ... not in the folder
new_filename(names, clean_name, e) ==
    IF (clean_name \o e) \in names THEN next_free(names, clean_name, e, 2)
    ELSE clean_name \o e

dest_path(t, doc_type, e, loan) ==
    LET folder == target_folder(doc_type) IN
    <<loan, folder, new_filename(names_in(t, loan, folder), sanitize_filename(doc_type), e)>>

\* shutil.move(file_path, dest_path) on the tree: a rename puts the file at dest,
\* replacing whatever dest held
shutil_move(t, dest, d) == [p \in DOMAIN t \cup {dest} |-> IF p = dest THEN d ELSE t[p]]

\* a slip: the file is copied, and stays in the input folder
source_after_copy(s, d) == s

\* shutil.move(file_path, dest_path) on the input folder: the source path is gone
source_after_move(s, d) == s \ {d}

----------------------------------------------------------------------------
(* Stage 1: recognize_document and organize_documents_for_loan *)

PriorDoc == 0       \* a document an earlier run left in the tree

Exts == {".jpg", ".PDF", ".txt"}
Eligible(e) == lower(e) \in {".jpg", ".jpeg", ".png", ".pdf"}

\* texts the classification oracle may return (response.text)
Responses == {"{\"document_type\": \"aadhaar card\"}",
              " {\"document_type\": \"PAN Card\"}\n",
              "Salary Slip",
              "{\"document_type\": \"sale deed\"}",
              "document_type: GST Certificate"}

FALLBACK == "{\"document_type\": \"unknown\"}"

\* a slip: the response is taken whole as the label
scrape_whole(result) == result

\* organize_documents_for_loan: the label scraped from the response
scrape(result) == strip(replace(replace(after_last(result, ":"), "}", ""), "\"", ""))

PriorTrees == {<<>>, [p \in {<<"Home Loan", "Others", "unknown.jpg">>} |-> PriorDoc]}

NoCur == [file |-> 0, raised |-> FALSE, result |-> "", parts |-> <<>>]

\* the documents of a set in ascending order (one order the glob may give)
RECURSIVE in_order(_)
in_order(S) == IF S = {} THEN <<>>
               ELSE LET m == CHOOSE x \in S : \A y \in S : x <= y
                    IN <<m>> \o in_order(S \ {m})

\* categorize_and_move(file_path, doc_type, base_folder, loan_type) for document d
\* whose file name ends in e
categorize_and_move(d, doc_type, e, loan, raised) ==
    LET dest == dest_path(tree, doc_type, e, loan) IN
    /\ tree' = shutil_move(tree, dest, d)
    /\ src' = source_after_move(src, d)
    /\ routed' = routed \cup {[doc |-> d, raised |-> raised, doc_type |-> doc_type,
                               path |-> dest, onto |-> dest \in DOMAIN tree]}

\* the scripts that a run does not start
IdleTwo == /\ pc2 = "off" /\ folders_left = <<>> /\ files_left = <<>>
           /\ folder_data = <<>> /\ answered = {}

IdleThree == /\ pc3 = "off" /\ pass = 1 /\ units_left = <<>>
             /\ json_corrected = <<>> /\ first_pass = <<>>

IdleFive == /\ pc5 = "off" /\ loaded = [t |-> "d", s |-> "", kids |-> <<>>]
            /\ flattened = <<>>

IdleMain == /\ pcm = "off" /\ step = 1 /\ started = <<>> /\ exited = <<>>

IdleJson == IdleTwo /\ json_output = <<>> /\ IdleThree /\ IdleFive /\ IdleMain

Init == /\ pc = "config"
        /\ loan_type = "Home Loan"
        /\ keyPresent \in BOOLEAN
        /\ \E n \in 0..MaxDocs : /\ src = 1..n
                                 /\ ext \in [1..n -> Exts]
        /\ files_to_check = <<>>
        /\ cur = NoCur
        /\ tree \in PriorTrees
        /\ tree0 = tree
        /\ routed = {}
        /\ IdleJson

\* module level: load_dotenv(), genai.configure(api_key=os.getenv(...)), the model.
\* Nothing tests the key: the stage goes on with or without it.
Configure == /\ pc = "config"
             /\ pc' = "start"
             /\ UNCHANGED <<loan_type, files_to_check, cur, keyPresent, fsvars, jsvars>>

\* organize_documents_for_loan up to the loop: collect the image and pdf files
Collect == /\ pc = "start"
           /\ LET found == in_order({d \in src : Eligible(ext[d])}) IN
              /\ files_to_check' = found
              /\ pc' = IF found = <<>> THEN "empty" ELSE "recognize"
           /\ UNCHANGED <<loan_type, cur, keyPresent, fsvars, jsvars>>

\* recognize_document: reading the file (or rendering the pdf page) raises; nothing
\* catches it, in recognize_document or in the loop, and the stage ends there
ReadFails == /\ pc = "recognize"
             /\ pc' = "crashed"
             /\ UNCHANGED <<loan_type, files_to_check, cur, keyPresent, fsvars, jsvars>>

\* recognize_document: generate_content raises (always so without a key); the
\* except clause answers with the fallback
OracleRaises == /\ pc = "recognize"
                /\ cur' = [NoCur EXCEPT !.file = Head(files_to_check), !.raised = TRUE,
                                        !.result = FALLBACK]
                /\ pc' = "move"
                /\ UNCHANGED <<loan_type, files_to_check, keyPresent, fsvars, jsvars>>

\* recognize_document: the oracle answers; result = response.text.strip()
OracleAnswers == /\ pc = "recognize"
                 /\ keyPresent
                 /\ \E t \in Responses :
                       cur' = [NoCur EXCEPT !.file = Head(files_to_check),
                                            !.result = strip(t)]
                 /\ pc' = "move"
                 /\ UNCHANGED <<loan_type, files_to_check, keyPresent, fsvars, jsvars>>

\* the rest of the loop body: scrape the label, categorize_and_move, next file
Move == /\ pc = "move"
        /\ categorize_and_move(cur.file, scrape(cur.result), ext[cur.file], loan_type,
                               cur.raised)
        /\ files_to_check' = Tail(files_to_check)
        /\ pc' = IF Tail(files_to_check) = <<>> THEN "done" ELSE "recognize"
        /\ cur' = NoCur
        /\ UNCHANGED <<loan_type, keyPresent, ext, tree0, jsvars>>

Next == Configure \/ Collect \/ ReadFails \/ OracleRaises \/ OracleAnswers \/ Move

Spec == Init /\ [][Next]_vars

----------------------------------------------------------------------------
(* categorize_and_move called directly, call after call *)

LoanTypes == {"Home Loan", "Small Ticket Business Loan"}
MoveExts == {".jpg", ".pdf"}
MoveLabels == {"PAN CARD", "pan card_2", "", "salary slip"}

InitMove == /\ pc = "calls"
            /\ loan_type = ""
            /\ keyPresent = TRUE
            /\ src = 1..MaxCalls
            /\ ext = [d \in 1..MaxCalls |-> ""]
            /\ files_to_check = <<>>
            /\ cur = NoCur
            /\ tree \in PriorTrees
            /\ tree0 = tree
            /\ routed = {}
            /\ IdleJson

\* one call, for the next document, with any label, extension and loan type
MoveCall == /\ pc = "calls"
            /\ src # {}
            /\ \E doc_type \in MoveLabels, e \in MoveExts, loan \in LoanTypes :
                  categorize_and_move(CHOOSE d \in src : \A x \in src : d <= x,
                                      doc_type, e, loan, FALSE)
            /\ UNCHANGED <<s1vars, keyPresent, ext, tree0, jsvars>>

NextMove == MoveCall

SpecMove == InitMove /\ [][NextMove]_vars

\* calls of categorize_and_move for one loan type, with labels that sanitize to
\* the same name, to a name that ends in _2, and to the name of a file that the
\* tree may hold from an earlier run
CollideLabels == {"AADHAAR CARD", "aadhaar card", "Aadhaar Card_2", "unknown"}

CollideCall == /\ pc = "calls"
               /\ src # {}
               /\ \E doc_type \in CollideLabels, e \in MoveExts :
                     categorize_and_move(CHOOSE d \in src : \A x \in src : d <= x,
                                         doc_type, e, "Home Loan", FALSE)
               /\ UNCHANGED <<s1vars, keyPresent, ext, tree0, jsvars>>

NextCollide == CollideCall

SpecCollide == InitMove /\ [][NextCollide]_vars

----------------------------------------------------------------------------
(* categorize_and_move on one label *)

Pieces == {"", "x", " ", "AADHAAR", "Pan Card", "aadhar card", "SALARY SLIP", "payslip",
           "Sale Deed", "Allotment letter", "GST Certificate", "unknown", "pan", "card"}

RECURSIVE join(_)
join(ps) == IF ps = <<>> THEN "" ELSE Head(ps) \o join(Tail(ps))

InitCat == /\ pc = "label"
           /\ loan_type = "Home Loan"
           /\ keyPresent = TRUE
           /\ src = {1}
           /\ ext = [d \in {1} |-> ".jpg"]
           /\ files_to_check = <<>>
           /\ \E ps \in [1..MaxParts -> Pieces] :
                 cur = [NoCur EXCEPT !.file = 1, !.result = join(ps), !.parts = ps]
           /\ tree = <<>>
           /\ tree0 = tree
           /\ routed = {}
           /\ IdleJson

\* the call for the label in hand
CatCall == /\ pc = "label"
           /\ categorize_and_move(cur.file, cur.result, ext[cur.file], loan_type, FALSE)
           /\ pc' = "filed"
           /\ UNCHANGED <<loan_type, files_to_check, cur, keyPresent, ext, tree0, jsvars>>

NextCat == CatCall

SpecCat == InitCat /\ [][NextCat]_vars

----------------------------------------------------------------------------
(* JSON values and json.loads *)

\* A value is a record [t, s, kids]: t is "d" (mapping), "l" (sequence), "s"
\* (string), "n" (number, s its decimal text) or "c" (true, false, null); kids is
\* the sequence of [k |-> key, v |-> value] of a mapping, in insertion order, and
\* of a sequence (k empty).
JStr(x) == [t |-> "s", s |-> x, kids |-> <<>>]
JNum(x) == [t |-> "n", s |-> x, kids |-> <<>>]
JLit(x) == [t |-> "c", s |-> x, kids |-> <<>>]
JList(items) == [t |-> "l", s |-> "", kids |-> items]
JDict(items) == [t |-> "d", s |-> "", kids |-> items]

HasKey(items, k) == \E i \in DOMAIN items : items[i].k = k
Lookup(items, k) == items[CHOOSE i \in DOMAIN items : items[i].k = k].v

\* Python: d[k] = v on a dict, which keeps the place of a key it already has
dict_set(items, k, v) ==
    IF HasKey(items, k)
    THEN [i \in DOMAIN items |-> IF items[i].k = k THEN [k |-> k, v |-> v] ELSE items[i]]
    ELSE Append(items, [k |-> k, v |-> v])

DigitChars == Chars(DIGITS)
Fail == [ok |-> FALSE, v |-> JLit("null"), rest |-> ""]
Parsed(v, rest) == [ok |-> TRUE, v |-> v, rest |-> rest]

StartsWith(s, p) == Len(s) >= Len(p) /\ SubSeq(s, 1, Len(p)) = p
Drop(s, n) == SubSeq(s, n + 1, Len(s))

\* the digits s starts with
RECURSIVE digit_run(_)
digit_run(s) == IF s # "" /\ Head(s) \in DigitChars THEN Head(s) \o digit_run(Tail(s)) ELSE ""

\* a string literal at the start of s (s starts with a double quote).  Texts of the
\* model hold no backslash, so there are no escapes; a control character inside
\* the literal is an error, as in json.
parse_string(s) ==
    LET ends == {i \in 2..Len(s) : Ch(s, i) = "\""} IN
    IF ends = {} THEN Fail
    ELSE LET e == CHOOSE i \in ends : \A j \in ends : i <= j
             body == SubSeq(s, 2, e - 1)
         IN IF Chars(body) \cap {"\n", "\t", "\r"} # {} THEN Fail
            ELSE Parsed(JStr(body), Drop(s, e))

RECURSIVE parse_value(_), parse_members(_, _), parse_elements(_, _)

\* after "{" or ",": a "key": value pair, then "," or "}"
parse_members(s0, acc) ==
    LET s == lstrip(s0) IN
    IF ~StartsWith(s, "\"") THEN Fail
    ELSE LET key == parse_string(s) IN
         IF ~key.ok THEN Fail
         ELSE LET s1 == lstrip(key.rest) IN
              IF ~StartsWith(s1, ":") THEN Fail
              ELSE LET val == parse_value(Tail(s1)) IN
                   IF ~val.ok THEN Fail
                   ELSE LET s2 == lstrip(val.rest)
                            acc2 == dict_set(acc, key.v.s, val.v)
                        IN IF StartsWith(s2, "}") THEN Parsed(JDict(acc2), Tail(s2))
                           ELSE IF StartsWith(s2, ",") THEN parse_members(Tail(s2), acc2)
                           ELSE Fail

\* after "[" or ",": a value, then "," or "]"
parse_elements(s0, acc) ==
    LET val == parse_value(s0) IN
    IF ~val.ok THEN Fail
    ELSE LET s2 == lstrip(val.rest)
             acc2 == Append(acc, [k |-> "", v |-> val.v])
         IN IF StartsWith(s2, "]") THEN Parsed(JList(acc2), Tail(s2))
            ELSE IF StartsWith(s2, ",") THEN parse_elements(Tail(s2), acc2)
            ELSE Fail

\* one JSON value at the start of s0, after white space.  Numbers are the
\* non-negative integers; texts of the model hold no sign, fraction or exponent.
parse_value(s0) ==
    LET s == lstrip(s0) IN
    IF s = "" THEN Fail
    ELSE IF Head(s) = "{"
         THEN (IF StartsWith(lstrip(Tail(s)), "}")
               THEN Parsed(JDict(<<>>), Tail(lstrip(Tail(s))))
               ELSE parse_members(Tail(s), <<>>))
    ELSE IF Head(s) = "["
         THEN (IF StartsWith(lstrip(Tail(s)), "]")
               THEN Parsed(JList(<<>>), Tail(lstrip(Tail(s))))
               ELSE parse_elements(Tail(s), <<>>))
    ELSE IF Head(s) = "\"" THEN parse_string(s)
    ELSE IF Head(s) = "0" THEN Parsed(JNum("0"), Tail(s))
    ELSE IF Head(s) \in DigitChars
         THEN Parsed(JNum(digit_run(s)), Drop(s, Len(digit_run(s))))
    ELSE IF StartsWith(s, "true") THEN Parsed(JLit("true"), Drop(s, 4))
    ELSE IF StartsWith(s, "false") THEN Parsed(JLit("false"), Drop(s, 5))
    ELSE IF StartsWith(s, "null") THEN Parsed(JLit("null"), Drop(s, 4))
    ELSE Fail

\* json.loads(text): ok is FALSE where json.loads raises JSONDecodeError
json_loads(text) ==
    LET r == parse_value(text) IN
    IF r.ok /\ lstrip(r.rest) = "" THEN Parsed(r.v, "") ELSE Fail

\* {"raw_response": text}
Wrapper(text) == JDict(<<[k |-> "raw_response", v |-> JStr(text)]>>)

----------------------------------------------------------------------------
(* Stage 3: clean_raw_response *)

BT == "'"                   \* stands for the grave accent, U+0060
FENCE == BT \o BT \o BT

\* re.sub(r"[fence](?:json)?", "", text, flags=re.IGNORECASE): left to right, each
\* fence goes, with a json (in any letter case) that follows it
RECURSIVE sub_fences(_)
sub_fences(s) ==
    IF s = "" THEN ""
    ELSE IF StartsWith(s, FENCE)
         THEN (IF Len(s) >= 7 /\ lower(SubSeq(s, 4, 7)) = "json"
               THEN sub_fences(Drop(s, 7))
               ELSE sub_fences(Drop(s, 3)))
    ELSE Head(s) \o sub_fences(Tail(s))

\* cleaned.replace([fence], "")
RECURSIVE remove_fences(_)
remove_fences(s) ==
    IF s = "" THEN ""
    ELSE IF StartsWith(s, FENCE) THEN remove_fences(Drop(s, 3))
    ELSE Head(s) \o remove_fences(Tail(s))

\* the text with the first fence in it taken out
RECURSIVE sub_first_fence(_)
sub_first_fence(s) ==
    IF s = "" THEN ""
    ELSE IF StartsWith(s, FENCE)
         THEN (IF Len(s) >= 7 /\ lower(SubSeq(s, 4, 7)) = "json"
               THEN Drop(s, 7) ELSE Drop(s, 3))
    ELSE Head(s) \o sub_first_fence(Tail(s))

\* a slip: re.sub with count=1 and no second replace, so one fence goes per call
clean_first_fence(text) == strip(sub_first_fence(text))

\* a slip: the white space around the text is left in
clean_unstripped(text) == remove_fences(sub_fences(text))

\* clean_raw_response: re.sub, replace and strip
clean_raw_response(text) == strip(remove_fences(sub_fences(text)))

----------------------------------------------------------------------------
(* Stage 2: process_documents and analyze_with_llm *)

FOLDERS == <<"KYC Docs", "Income Docs", "Property Docs">>
BASE_LOAN == "Home Loan"        \* BASE_DIR is organized_docs/Home Loan

\* texts the structuring oracle may return (response.text)
OracleTexts ==
    {"{\"name\":\"A\"}",
     FENCE \o "json\n{\"name\":\"A\"}\n" \o FENCE,
     FENCE \o "JSON\nno fields " \o FENCE \o " found\n",
     " no text ",
     "{\"raw_response\": \"x\", \"b\": 1}",
     FENCE \o "json{\"raw_response\": \"1\"}" \o FENCE,
     "{\"raw_response\": 1}",
     "[1]"}

\* the trees stage 1 can leave: n documents filed one after another
StageOneLabels == {"pan card", "salary slip", "unknown"}

RECURSIVE Organized(_)
Organized(n) ==
    IF n = 0 THEN {<<>>}
    ELSE LET before == Organized(n - 1) IN
         before \cup {shutil_move(t, dest_path(t, l, ".jpg", BASE_LOAN), n) :
                          t \in {x \in before : Cardinality(DOMAIN x) = n - 1},
                          l \in StageOneLabels}

\* analyze_with_llm, given response.text: the parsed value, or the wrapper around
\* the text as it came
analyze_with_llm(text) ==
    IF json_loads(text).ok THEN json_loads(text).v ELSE Wrapper(text)

\* the names of the files of BASE_DIR/folder, in the order of their documents
files_of(t, folder) ==
    LET ps == {p \in DOMAIN t : p[1] = BASE_LOAN /\ p[2] = folder}
        ds == in_order({t[p] : p \in ps})
    IN [i \in DOMAIN ds |-> (CHOOSE p \in ps : t[p] = ds[i])[3]]

\* f"{folder_name.replace(' ', '_')}.json"
unit_of(folder) == replace(folder, " ", "_") \o ".json"

\* json.dump of a record set under a unit's name; the file holds the value
write_unit(dir, unit, items) ==
    [u \in DOMAIN dir \cup {unit} |-> IF u = unit THEN JDict(items) ELSE dir[u]]

IdleOne == /\ pc = "off" /\ loan_type = BASE_LOAN /\ files_to_check = <<>> /\ cur = NoCur
           /\ ext = <<>> /\ src = {} /\ routed = {}

InitExtract == /\ IdleOne
               /\ keyPresent \in BOOLEAN
               /\ tree \in Organized(MaxFiles)
               /\ tree0 = tree
               /\ pc2 = "config"
               /\ folders_left = <<>>
               /\ files_left = <<>>
               /\ folder_data = <<>>
               /\ json_output = <<>>
               /\ answered = {}
               /\ IdleThree
               /\ IdleFive
               /\ IdleMain

s2frame == <<s1vars, keyPresent, fsvars, s3vars, s5vars, mvars>>

\* module level: genai.configure(api_key=os.getenv(...)), the directories.
\* Nothing tests the key.
Configure2 == /\ pc2 = "config"
              /\ pc2' = "folder"
              /\ folders_left' = FOLDERS
              /\ UNCHANGED <<files_left, folder_data, json_output, answered, s2frame>>

\* process_documents: the folder does not exist; continue
FolderMissing == /\ pc2 = "folder"
                 /\ folders_left # <<>>
                 /\ files_of(tree, Head(folders_left)) = <<>>
                 /\ folders_left' = Tail(folders_left)
                 /\ UNCHANGED <<pc2, files_left, folder_data, json_output, answered, s2frame>>

\* process_documents: the folder exists; folder_data = {} and its files are walked
EnterFolder == /\ pc2 = "folder"
               /\ folders_left # <<>>
               /\ files_of(tree, Head(folders_left)) # <<>>
               /\ files_left' = files_of(tree, Head(folders_left))
               /\ folder_data' = <<>>
               /\ pc2' = "file"
               /\ UNCHANGED <<folders_left, json_output, answered, s2frame>>

\* extract_text returns "" (nothing recognized, or an error it caught); continue
FileNoText == /\ pc2 = "file"
              /\ files_left # <<>>
              /\ files_left' = Tail(files_left)
              /\ UNCHANGED <<pc2, folders_left, folder_data, json_output, answered, s2frame>>

\* text was extracted and the oracle answers: the entry goes into folder_data
FileAnswered == /\ pc2 = "file"
                /\ files_left # <<>>
                /\ keyPresent
                /\ \E text \in OracleTexts :
                      /\ folder_data' = dict_set(folder_data, Head(files_left),
                                                 analyze_with_llm(text))
                      /\ answered' = answered \cup {[folder |-> Head(folders_left),
                                                     name |-> Head(files_left),
                                                     text |-> text]}
                /\ files_left' = Tail(files_left)
                /\ UNCHANGED <<pc2, folders_left, json_output, s2frame>>

\* text was extracted and generate_content raises (always so without a key):
\* nothing catches it, and the stage ends with folder_data unwritten
FileOracleRaises == /\ pc2 = "file"
                    /\ files_left # <<>>
                    /\ pc2' = "crashed"
                    /\ UNCHANGED <<folders_left, files_left, folder_data, json_output,
                                   answered, s2frame>>

\* the folder's loop is over: its record set is written, and the next folder
WriteFolder == /\ pc2 = "file"
               /\ files_left = <<>>
               /\ json_output' = write_unit(json_output, unit_of(Head(folders_left)),
                                            folder_data)
               /\ folders_left' = Tail(folders_left)
               /\ pc2' = "folder"
               /\ UNCHANGED <<files_left, folder_data, answered, s2frame>>

\* process_documents returns
Finish2 == /\ pc2 = "folder"
           /\ folders_left = <<>>
           /\ pc2' = "done"
           /\ UNCHANGED <<folders_left, files_left, folder_data, json_output, answered,
                          s2frame>>

NextExtract == \/ Configure2 \/ FolderMissing \/ EnterFolder \/ FileNoText
               \/ FileAnswered \/ FileOracleRaises \/ WriteFolder \/ Finish2

SpecExtract == InitExtract /\ [][NextExtract]_vars

----------------------------------------------------------------------------
(* Stage 3: the repair loop *)

\* isinstance(content, dict) and "raw_response" in content
has_raw_response(content) == content.t = "d" /\ HasKey(content.kids, "raw_response")

\* re.sub raises TypeError on a raw_response that is no string
repair_raises(content) ==
    has_raw_response(content) /\ Lookup(content.kids, "raw_response").t # "s"

\* the loop body: what corrected_data gets for an entry
repair_entry(content) ==
    IF has_raw_response(content)
    THEN LET cleaned_text == clean_raw_response(Lookup(content.kids, "raw_response").s)
             corrected_json == json_loads(cleaned_text)
         IN IF corrected_json.ok THEN corrected_json.v ELSE Wrapper(cleaned_text)
    ELSE content

\* corrected_data for the entries of one json file
corrected_data(items) ==
    [i \in DOMAIN items |-> [k |-> items[i].k, v |-> repair_entry(items[i].v)]]

\* the directory a run reads: json_output, or for a run over the output of the
\* first, what the first run wrote
input_folder == IF pass = 1 THEN json_output ELSE first_pass

\* input_folder.glob("*.json"): the json files, in any of the orders a glob may give
units_of(dir) ==
    {order \in [1..Cardinality(DOMAIN dir) -> DOMAIN dir] :
        \A i, j \in DOMAIN order : i # j => order[i] # order[j]}

\* the record sets stage 2 can leave in json_output
Stage2Entries == {analyze_with_llm(text) : text \in OracleTexts}

EntryName(i) == IF i = 1 THEN "pan_card.jpg" ELSE "pan_card_" \o str(i) \o ".jpg"

InitRepair ==
    /\ IdleOne
    /\ keyPresent = TRUE
    /\ tree = <<>>
    /\ tree0 = tree
    /\ IdleTwo
    /\ IdleFive
    /\ IdleMain
    /\ \E n \in 0..MaxEntries, income \in BOOLEAN :
          \E es \in [1..n -> Stage2Entries] :
              json_output =
                  [u \in {"KYC_Docs.json"}
                         \cup (IF income THEN {"Income_Docs.json"} ELSE {}) |->
                      IF u = "KYC_Docs.json"
                      THEN JDict([i \in 1..n |-> [k |-> EntryName(i), v |-> es[i]]])
                      ELSE JDict(<<[k |-> "salary_slip.jpg",
                                    v |-> analyze_with_llm("{\"name\":\"A\"}")]>>)]
    /\ pc3 = "config"
    /\ pass = 1
    /\ units_left = <<>>
    /\ json_corrected = <<>>
    /\ first_pass = <<>>

s3frame == <<s1vars, keyPresent, fsvars, s2vars, json_output, s5vars, mvars>>

\* module level: the folders; the json files of the input folder are listed
Configure3 == /\ pc3 = "config"
              /\ units_left' \in units_of(input_folder)
              /\ pc3' = "unit"
              /\ UNCHANGED <<pass, json_corrected, first_pass, s3frame>>

\* one json file: every entry is repaired or copied, and the record set is written
RepairUnit ==
    /\ pc3 = "unit"
    /\ units_left # <<>>
    /\ LET data == input_folder[Head(units_left)].kids IN
       /\ \A i \in DOMAIN data : ~repair_raises(data[i].v)
       /\ json_corrected' = write_unit(json_corrected, Head(units_left),
                                       corrected_data(data))
    /\ units_left' = Tail(units_left)
    /\ UNCHANGED <<pc3, pass, first_pass, s3frame>>

\* one json file with a raw_response that is no string: the TypeError is not
\* caught, and the stage ends before the file's record set is written
RepairRaises ==
    /\ pc3 = "unit"
    /\ units_left # <<>>
    /\ LET data == input_folder[Head(units_left)].kids IN
       \E i \in DOMAIN data : repair_raises(data[i].v)
    /\ pc3' = "crashed"
    /\ UNCHANGED <<pass, units_left, json_corrected, first_pass, s3frame>>

\* the loop is over
Finish3 == /\ pc3 = "unit"
           /\ units_left = <<>>
           /\ pc3' = "done"
           /\ UNCHANGED <<pass, units_left, json_corrected, first_pass, s3frame>>

\* the stage is run again, over what the first run wrote
Rerun == /\ pc3 = "done"
         /\ pass = 1
         /\ first_pass' = json_corrected
         /\ json_corrected' = <<>>
         /\ pass' = 2
         /\ pc3' = "config"
         /\ UNCHANGED <<units_left, s3frame>>

NextRepair == Configure3 \/ RepairUnit \/ RepairRaises \/ Finish3 \/ Rerun

SpecRepair == InitRepair /\ [][NextRepair]_vars

----------------------------------------------------------------------------
(* Stage 5: flatten_json *)

\* a slip: the key of the parent is left out of the path
new_key_bare(parent_key, k) == k

\* Python: f"{parent_key}{sep}{k}" if parent_key else k, with sep = '.'
new_key(parent_key, k) == IF parent_key # "" THEN parent_key \o "." \o k ELSE k

\* Python: f"{new_key}[{i}]"
index_key(key, i) == key \o "[" \o str(i) \o "]"

\* Python: dict(items): a later pair takes the place of an earlier one with its key
RECURSIVE dict(_)
dict(items) ==
    IF Len(items) = 0 THEN <<>>
    ELSE LET n == Len(items)
         IN dict_set(dict(SubSeq(items, 1, n - 1)), items[n].k, items[n].v)

RECURSIVE flatten_json(_, _), items_of_list(_, _, _), items_of(_, _, _)

\* the inner for loop: the items of the elements of list v from index i on
items_of_list(v, key, i) ==
    IF i >= Len(v.kids) THEN <<>>
    ELSE LET item == v.kids[i + 1].v
         IN (IF item.t = "d" THEN flatten_json(item, index_key(key, i))
             ELSE <<[k |-> index_key(key, i), v |-> item]>>)
            \o items_of_list(v, key, i + 1)

\* the outer for loop: items after the first n pairs of the mapping
items_of(mapping, parent_key, n) ==
    IF n = 0 THEN <<>>
    ELSE LET v == mapping.kids[n].v
             key == new_key(parent_key, mapping.kids[n].k)
         IN items_of(mapping, parent_key, n - 1)
            \o (IF v.t = "d" THEN flatten_json(v, key)
                ELSE IF v.t = "l" THEN items_of_list(v, key, 0)
                ELSE <<[k |-> key, v |-> v]>>)

flatten_json(mapping, parent_key) ==
    dict(items_of(mapping, parent_key, Len(mapping.kids)))

\* the structured values json.load can return, by their number of nodes
MaxNodes == 4
Keys == {"a", "b", "a.b", "a[0]", ""}
Scalars == {JNum("1"), JNum("2")}

RECURSIVE ValsN(_), SeqsN(_)

\* the sequences of values that have n nodes in all
SeqsN(n) ==
    IF n = 0 THEN {<<>>}
    ELSE UNION {{<<[k |-> "", v |-> v]>> \o r : v \in ValsN(j), r \in SeqsN(n - j)} :
                j \in 1..n}

\* the pairs of a mapping with the values of r: its keys differ from each other
Keyed(r) ==
    {[i \in DOMAIN r |-> [k |-> f[i], v |-> r[i].v]] :
        f \in {g \in [DOMAIN r -> Keys] :
                  \A i, j \in DOMAIN r : i # j => g[i] # g[j]}}

\* the list and the mappings that hold the values of r
WithKids(r) == {JList(r)} \cup {JDict(x) : x \in Keyed(r)}

ValsN(n) == (IF n = 1 THEN Scalars ELSE {})
            \cup UNION {WithKids(r) : r \in SeqsN(n - 1)}

InitFlatten == /\ IdleOne
               /\ keyPresent = TRUE
               /\ tree = <<>>
               /\ tree0 = tree
               /\ IdleTwo
               /\ json_output = <<>>
               /\ IdleThree
               /\ IdleMain
               /\ pc5 = "load"
               /\ \/ loaded \in Scalars
                  \/ \E n \in 1..MaxNodes : \E r \in SeqsN(n - 1) : loaded \in WithKids(r)
               /\ flattened = <<>>

s5frame == <<s1vars, keyPresent, fsvars, s2vars, json_output, s3vars, mvars>>

\* flattened = flatten_json(data)
FlattenCall == /\ pc5 = "load"
               /\ loaded.t = "d"
               /\ flattened' = flatten_json(loaded, "")
               /\ pc5' = "done"
               /\ UNCHANGED <<loaded, s5frame>>

\* data.items() of a value that is no dict: AttributeError
FlattenRaises == /\ pc5 = "load"
                 /\ loaded.t # "d"
                 /\ pc5' = "crashed"
                 /\ UNCHANGED <<loaded, flattened, s5frame>>

NextFlatten == FlattenCall \/ FlattenRaises

SpecFlatten == InitFlatten /\ [][NextFlatten]_vars

----------------------------------------------------------------------------
(* The driver: main.py *)

steps == <<"automation/1_recognize_and_place_docs.py",
           "automation/2_recognize_and_get_json.py",
           "automation/3_correct_the_json.py",
           "automation/4_generate_json_schema.py",
           "automation/5_auto_form_filler_with_schema.py">>

\* the return codes a step's process can exit with: 0, 1 for an uncaught
\* exception, 2 for a script the interpreter cannot open
ReturnCodes == {0, 1, 2}

\* a slip: subprocess.run(..., check=True) semantics, where a failed step ends the loop
next_step_checked(index, returncode) ==
    IF returncode = 0 THEN index + 1 ELSE Len(steps) + 1

\* for step in steps: result.returncode is never read
next_step(index, returncode) == index + 1

InitMain == /\ IdleOne
            /\ keyPresent = TRUE
            /\ tree = <<>>
            /\ tree0 = tree
            /\ IdleTwo
            /\ json_output = <<>>
            /\ IdleThree
            /\ IdleFive
            /\ pcm = "loop"
            /\ step = 1
            /\ started = <<>>
            /\ exited = <<>>

mframe == <<s1vars, keyPresent, fsvars, s2vars, json_output, s3vars, s5vars>>

\* the loop takes the next step and subprocess.run starts its process
StartStep == /\ pcm = "loop"
             /\ step <= Len(steps)
             /\ started' = Append(started, steps[step])
             /\ pcm' = "wait"
             /\ UNCHANGED <<step, exited, mframe>>

\* the process of the step exits, and subprocess.run returns its return code
StepExits == /\ pcm = "wait"
             /\ \E returncode \in ReturnCodes :
                    exited' = Append(exited, [step |-> steps[step],
                                              returncode |-> returncode])
             /\ pcm' = "returned"
             /\ UNCHANGED <<step, started, mframe>>

\* the duration of the step is printed, and the loop goes on
Completed == /\ pcm = "returned"
             /\ step' = next_step(step, exited[Len(exited)].returncode)
             /\ pcm' = "loop"
             /\ UNCHANGED <<started, exited, mframe>>

\* after the loop: the overall time is printed
Report == /\ pcm = "loop"
          /\ step > Len(steps)
          /\ pcm' = "report"
          /\ UNCHANGED <<step, started, exited, mframe>>

NextMain == StartStep \/ StepExits \/ Completed \/ Report

\* the driver is one sequential process that goes on whenever it can; when the
\* process of a step exits is not up to the driver
SpecMain == /\ InitMain
            /\ [][NextMain]_vars
            /\ WF_vars(StartStep) /\ WF_vars(Completed) /\ WF_vars(Report)

----------------------------------------------------------------------------
(* Properties of stage 1 *)

\* C1 (SpecCat): the category of every routed label is that of the first table, in
\* the order KYC, Income, Property, Business Proof, with a keyword that occurs in
\* the lower-cased label; it is Others exactly when no keyword of any table occurs;
\* and a label put together with a KYC keyword in any letter case goes to KYC Docs
\* whatever else it holds.
C1_FirstMatchWins ==
    \A r \in routed :
        LET l == lower(r.doc_type)
            cat == r.path[2]
            kyc == \E k \in KYC_DOCS : Contains(l, k)
            income == \E k \in INCOME_DOCS : Contains(l, k)
            property == \E k \in PROPERTY_DOCS : Contains(l, k)
            business == \E k \in BUSINESS_PROOF : Contains(l, k)
        IN /\ kyc => cat = "KYC Docs"
           /\ (~kyc /\ income) => cat = "Income Docs"
           /\ (~kyc /\ ~income /\ property) => cat = "Property Docs"
           /\ (~kyc /\ ~income /\ ~property /\ business) => cat = "Business Proof"
           /\ (cat = "Others") <=> ~(kyc \/ income \/ property \/ business)
           /\ (\E i \in DOMAIN cur.parts : cur.parts[i] \in {"AADHAAR", "Pan Card", "aadhar card"}) => cat = "KYC Docs"

\* an upper-case KYC keyword after an income keyword, filed under KYC Docs
C1_Witness ==
    /\ pc = "filed"
    /\ cur.parts = <<"SALARY SLIP", "AADHAAR">>
    /\ \E r \in routed : r.path[2] = "KYC Docs" /\ r.doc_type = "SALARY SLIPAADHAAR"

\* C2 (Spec): at every step of the run each document is at exactly one path, its
\* source path or one path of the tree; and when the run has completed every
\* eligible input file is out of the input folder and at one path of the tree,
\* under organized_docs/<loan_type>/ in one of the five category folders.
C2_ExactlyOnePlace ==
    /\ \A d \in DOMAIN ext :
          (IF d \in src THEN 1 ELSE 0) + Cardinality({p \in DOMAIN tree : tree[p] = d}) = 1
    /\ pc = "done" =>
          \A d \in DOMAIN ext :
              Eligible(ext[d]) =>
                  /\ d \notin src
                  /\ \E p \in DOMAIN tree :
                        tree[p] = d /\ p[1] = loan_type /\ p[2] \in Categories

\* a completed run that filed two documents in different folders and left a file
\* that is no image or pdf where it was
C2_Witness ==
    /\ pc = "done"
    /\ src # {}
    /\ \E p, q \in DOMAIN tree : p[2] = "KYC Docs" /\ q[2] = "Others" /\ tree[q] # PriorDoc

\* C3 (SpecMove): no call moves a file onto a path that holds one: every routed
\* document is still at the path it was moved to, every file the tree held before
\* is still there, and the tree has grown by one file per call.
C3_NoSharedPath ==
    /\ \A r \in routed : ~r.onto /\ r.path \in DOMAIN tree /\ tree[r.path] = r.doc
    /\ \A p \in DOMAIN tree0 : p \in DOMAIN tree /\ tree[p] = tree0[p]
    /\ Cardinality(DOMAIN tree) = Cardinality(DOMAIN tree0) + Cardinality(routed)

\* a label that sanitizes to a name ending in _2 met the suffix of a repeated label
C3_Witness ==
    /\ <<"Home Loan", "KYC Docs", "pan_card_3.jpg">> \in DOMAIN tree
    /\ \E r \in routed : r.doc_type = "pan card_2" /\ r.path[3] = "pan_card_2.jpg"

\* C4 (Spec), the claim: a failure on one file leaves no other file unprocessed, so
\* a stage that has stopped on an error has at most the failing file left.
C4_FailureIsolated == pc = "crashed" => Len(files_to_check) <= 1

\* C8 (Spec): when the oracle call raises, the result in hand is the fallback, whose
\* scraped label is "unknown"; the document is moved to Others under that label;
\* and the loop has gone past it.
C8_OracleErrorToOthers ==
    /\ (pc = "move" /\ cur.raised) =>
          /\ cur.result = FALLBACK
          /\ scrape(cur.result) = "unknown"
    /\ \A r \in routed :
          r.raised =>
              /\ r.doc_type = "unknown"
              /\ r.path[2] = "Others"
              /\ tree[r.path] = r.doc
              /\ r.doc \notin src
              /\ \A i \in DOMAIN files_to_check : files_to_check[i] # r.doc
              /\ pc \in {"recognize", "move", "done", "crashed"}

\* with a key present the oracle call failed for one file, and a later file was
\* classified and filed
C8_Witness ==
    /\ keyPresent
    /\ \E r, q \in routed : r.raised /\ ~q.raised /\ q.doc > r.doc /\ q.path[2] = "KYC Docs"

\* C10 (Spec), the claim: without the key the stage stops before its loop, and no
\* file is classified or moved.
C10_NoKeyNoProcessing ==
    ~keyPresent => (pc \notin {"recognize", "move"} /\ routed = {} /\ tree = tree0)

----------------------------------------------------------------------------
(* Properties of stages 2 and 3 *)

\* C5 (SpecExtract), the claim: once stage 2 has stopped, every answer the oracle
\* gave has its entry in the folder's output unit under the file's name: the
\* parsed value where the text parses, else the wrapper around the text as it came.
C5_EntryRecorded ==
    pc2 \in {"done", "crashed"} =>
        \A a \in answered :
            /\ unit_of(a.folder) \in DOMAIN json_output
            /\ HasKey(json_output[unit_of(a.folder)].kids, a.name)
            /\ Lookup(json_output[unit_of(a.folder)].kids, a.name) =
                   (IF json_loads(a.text).ok THEN json_loads(a.text).v
                    ELSE Wrapper(a.text))

\* C6 (SpecRepair), the claim: in every record set the stage has written, an entry
\* of the input that is not exactly {"raw_response": text} is there unchanged
\* under the same key.
C6_StructuredUnchanged ==
    \A u \in DOMAIN json_corrected :
        \A i \in DOMAIN input_folder[u].kids :
            LET e == input_folder[u].kids[i]
                bare == /\ e.v.t = "d"
                        /\ Len(e.v.kids) = 1
                        /\ e.v.kids[1].k = "raw_response"
                        /\ e.v.kids[1].v.t = "s"
            IN ~bare => /\ HasKey(json_corrected[u].kids, e.k)
                        /\ Lookup(json_corrected[u].kids, e.k) = e.v

\* C7 (SpecRepair), the claim: a run over the output of a first run completes and
\* writes every record set as the first run left it.
C7_Idempotent ==
    pass = 2 =>
        /\ pc3 # "crashed"
        /\ \A u \in DOMAIN json_corrected : json_corrected[u] = first_pass[u]

\* C7 (SpecRepair), as amended: the same, for record sets in which no
\* raw_response text repairs to a mapping that itself has a raw_response key.
C7_IdempotentUnlessNested ==
    LET nested(content) ==
            /\ has_raw_response(content)
            /\ ~repair_raises(content)
            /\ has_raw_response(repair_entry(content))
            /\ json_loads(clean_raw_response(Lookup(content.kids, "raw_response").s)).ok
    IN  (/\ pass = 2
         /\ \A u \in DOMAIN json_output :
                \A i \in DOMAIN json_output[u].kids : ~nested(json_output[u].kids[i].v))
        => /\ pc3 # "crashed"
           /\ \A u \in DOMAIN json_corrected : json_corrected[u] = first_pass[u]

\* the second run has rewritten a record set that holds a repaired entry and a
\* wrapper that still does not parse, with its text cleaned
C7_Witness ==
    /\ pass = 2
    /\ pc3 = "done"
    /\ "KYC_Docs.json" \in DOMAIN json_corrected
    /\ json_output["KYC_Docs.json"].kids =
           <<[k |-> "pan_card.jpg",
              v |-> Wrapper(FENCE \o "json\n{\"name\":\"A\"}\n" \o FENCE)],
             [k |-> "pan_card_2.jpg",
              v |-> Wrapper(FENCE \o "JSON\nno fields " \o FENCE \o " found\n")]>>
    /\ json_corrected["KYC_Docs.json"].kids =
           <<[k |-> "pan_card.jpg", v |-> JDict(<<[k |-> "name", v |-> JStr("A")]>>)],
             [k |-> "pan_card_2.jpg", v |-> Wrapper("no fields  found")]>>

----------------------------------------------------------------------------
(* Properties of stage 5 *)

RECURSIVE leaves(_), leaves_of(_, _)

\* the scalars of the first n pairs, in the order of a traversal
leaves_of(kids, n) ==
    IF n = 0 THEN <<>> ELSE leaves_of(kids, n - 1) \o leaves(kids[n].v)

\* the leaves of a value: its scalars, in the order of a traversal
leaves(v) == IF v.t \in {"d", "l"} THEN leaves_of(v.kids, Len(v.kids)) ELSE <<v>>

\* how often x is in seq
count(seq, x) == Cardinality({i \in DOMAIN seq : seq[i] = x})

stored(items) == [i \in DOMAIN items |-> items[i].v]

RECURSIVE plain(_)

\* every key is non-empty and has no '.' and no '[' in it, and no list is an
\* element of a list
plain(v) ==
    \A i \in DOMAIN v.kids :
        /\ v.t = "d" => /\ v.kids[i].k # ""
                        /\ ~Contains(v.kids[i].k, ".")
                        /\ ~Contains(v.kids[i].k, "[")
        /\ v.t = "l" => v.kids[i].v.t # "l"
        /\ plain(v.kids[i].v)

\* C9 (SpecFlatten), the claim: flatten_json returns as many entries as the mapping
\* has leaves, and every leaf value is stored as often as it is a leaf, whatever
\* the keys are.
C9_EveryLeafOnce ==
    pc5 = "done" =>
        /\ Len(flattened) = Len(leaves(loaded))
        /\ \A x \in Scalars : count(stored(flattened), x) = count(leaves(loaded), x)

\* C9 (SpecFlatten), as amended: the same for mappings whose keys are non-empty and
\* free of '.' and '[' and that hold no list directly in a list; then the entries
\* are the leaves in the order of the traversal.
C9_EveryLeafOncePlainKeys ==
    (pc5 = "done" /\ plain(loaded)) =>
        /\ Len(flattened) = Len(leaves(loaded))
        /\ \A x \in Scalars : count(stored(flattened), x) = count(leaves(loaded), x)
        /\ stored(flattened) = leaves(loaded)

\* a mapping with a leaf under a nested mapping and a leaf of its own is flattened
C9_Witness ==
    /\ pc5 = "done"
    /\ loaded = JDict(<<[k |-> "a", v |-> JDict(<<[k |-> "b", v |-> JNum("1")]>>)],
                        [k |-> "b", v |-> JNum("2")]>>)
    /\ flattened = <<[k |-> "a.b", v |-> JNum("1")], [k |-> "b", v |-> JNum("2")]>>

----------------------------------------------------------------------------
(* Properties of the driver *)

\* C11 (SpecMain): the steps started are always the first steps of the list, in
\* its order and each once; a step is started only when the process of every
\* step before it has exited; the report comes only after all five have exited;
\* and once the process of step 5 has exited, whatever the return codes were, the
\* driver reaches its report.
C11_InOrderThenReport ==
    /\ [](/\ Len(started) <= Len(steps)
          /\ started = SubSeq(steps, 1, Len(started))
          /\ Len(exited) \in {Len(started) - 1, Len(started)} \cap 0..Len(steps)
          /\ \A k \in DOMAIN exited : exited[k].step = steps[k]
          /\ pcm = "report" => started = steps /\ Len(exited) = Len(steps))
    /\ (Len(exited) = Len(steps)) ~> (pcm = "report")

\* the report is reached in a run in which step 1 and step 3 failed
C11_Witness ==
    /\ pcm = "report"
    /\ started = steps
    /\ exited[1].returncode = 1
    /\ exited[3].returncode = 2
    /\ exited[5].returncode = 0

----------------------------------------------------------------------------
(* Properties of the names categorize_and_move gives *)

\* the extension of a file name of the tree
ext_of(filename) == SubSeq(filename, Len(filename) - 3, Len(filename))

\* the sanitized names of the labels
clean_name_of == [doc_type \in CollideLabels |-> sanitize_filename(doc_type)]

\* the documents routed so far, up to r, into the folder of r with the sanitized
\* name and the extension of r
same_name(r) ==
    {q \in routed : /\ q.doc <= r.doc
                    /\ q.path[1] = r.path[1] /\ q.path[2] = r.path[2]
                    /\ clean_name_of[q.doc_type] = clean_name_of[r.doc_type]
                    /\ ext_of(q.path[3]) = ext_of(r.path[3])}

\* <name>.<ext> for the first and <name>_n.<ext> for the n-th
nth_name(r, n) ==
    IF n = 1 THEN clean_name_of[r.doc_type] \o ext_of(r.path[3])
    ELSE clean_name_of[r.doc_type] \o "_" \o str(n) \o ext_of(r.path[3])

\* C12 (SpecCollide), the claim: the n-th document routed into a folder with a given
\* sanitized name and extension is named <name>.<ext> for n = 1 and <name>_n.<ext>
\* after that, whatever else was routed into the folder.
C12_NthCollision ==
    \A r \in routed : r.path[3] = nth_name(r, Cardinality(same_name(r)))

\* C12 (SpecCollide), as amended: the same, provided no file of the folder that is
\* not one of these documents has one of the names <name>.<ext>, <name>_2.<ext>,
\* ..., <name>_n.<ext>.
C12_NthCollisionNamesFree ==
    \A r \in routed :
        LET n == Cardinality(same_name(r))
            others == {p \in DOMAIN tree :
                          /\ p[1] = r.path[1] /\ p[2] = r.path[2]
                          /\ tree[p] \notin {q.doc : q \in same_name(r)}}
        IN (\A p \in others : \A j \in 1..n : p[3] # nth_name(r, j))
           => r.path[3] = nth_name(r, n)

\* two .jpg documents labelled AADHAAR CARD went to KYC Docs with a document of
\* another name between them
C12_Witness ==
    \E r1, r2, r3 \in routed :
        /\ r1.doc < r2.doc /\ r2.doc < r3.doc
        /\ r1.doc_type = "AADHAAR CARD" /\ r3.doc_type = "AADHAAR CARD"
        /\ r2.doc_type = "unknown"
        /\ r1.path = <<"Home Loan", "KYC Docs", "aadhaar_card.jpg">>
        /\ r3.path = <<"Home Loan", "KYC Docs", "aadhaar_card_2.jpg">>

----------------------------------------------------------------------------
(* Properties of the repair of wrappers *)

\* an entry that is exactly {"raw_response": text}
bare_wrapper(content) ==
    /\ content.t = "d"
    /\ Len(content.kids) = 1
    /\ content.kids[1].k = "raw_response"
    /\ content.kids[1].v.t = "s"

\* C13 (SpecRepair): in every record set the stage has written, an entry that was
\* {"raw_response": text} is, under the same key, what the cleaned text parses to,
\* or {"raw_response": cleaned text} when it does not parse; the cleaned text has no
\* fence left, whatever the case of json after it, and no white space around it;
\* and the stage never ends on an error over such an entry.
C13_WrapperRepaired ==
    /\ \A u \in DOMAIN json_corrected :
         \A i \in DOMAIN input_folder[u].kids :
            LET e == input_folder[u].kids[i]
                text == e.v.kids[1].v.s
                cleaned == clean_raw_response(text)
                out == Lookup(json_corrected[u].kids, e.k)
            IN bare_wrapper(e.v) =>
                 /\ HasKey(json_corrected[u].kids, e.k)
                 /\ ~Contains(cleaned, FENCE)
                 /\ cleaned = strip(cleaned)
                 /\ out = (IF json_loads(cleaned).ok THEN json_loads(cleaned).v
                           ELSE Wrapper(cleaned))
                 /\ text = FENCE \o "json\n{\"name\":\"A\"}\n" \o FENCE
                       => out = JDict(<<[k |-> "name", v |-> JStr("A")]>>)
                 /\ text = FENCE \o "JSON\nno fields " \o FENCE \o " found\n"
                       => out = Wrapper("no fields  found")
                 /\ text = " no text " => out = Wrapper("no text")
    /\ pc3 = "crashed" =>
         \E i \in DOMAIN input_folder[Head(units_left)].kids :
            LET content == input_folder[Head(units_left)].kids[i].v
            IN has_raw_response(content) /\ ~bare_wrapper(content)

\* the first run has repaired the fenced reply of the oracle and has kept a text
\* that does not parse, cleaned, in its wrapper
C13_Witness ==
    /\ pass = 1
    /\ "KYC_Docs.json" \in DOMAIN json_corrected
    /\ json_output["KYC_Docs.json"].kids =
           <<[k |-> "pan_card.jpg",
              v |-> Wrapper(FENCE \o "json\n{\"name\":\"A\"}\n" \o FENCE)],
             [k |-> "pan_card_2.jpg", v |-> Wrapper(" no text ")]>>
    /\ json_corrected["KYC_Docs.json"].kids =
           <<[k |-> "pan_card.jpg", v |-> JDict(<<[k |-> "name", v |-> JStr("A")]>>)],
             [k |-> "pan_card_2.jpg", v |-> Wrapper("no text")]>>

----------------------------------------------------------------------------
(* Properties of flatten_json against the definition of the flattener *)

RECURSIVE flatten_def(_, _), children_def(_, _, _), elements_def(_, _, _)

\* the first n children of a mapping, each under prefix.child_key, or under the
\* bare child_key where there is no prefix
children_def(value, prefix, n) ==
    IF n = 0 THEN <<>>
    ELSE children_def(value, prefix, n - 1)
         \o flatten_def(value.kids[n].v,
                        IF prefix = "" THEN value.kids[n].k
                        ELSE prefix \o "." \o value.kids[n].k)

\* the first n elements of a sequence, each under prefix[index]: a mapping is
\* walked, any other element is stored as it is
elements_def(value, prefix, n) ==
    IF n = 0 THEN <<>>
    ELSE elements_def(value, prefix, n - 1)
         \o (IF value.kids[n].v.t = "d"
             THEN flatten_def(value.kids[n].v, prefix \o "[" \o str(n - 1) \o "]")
             ELSE <<[k |-> prefix \o "[" \o str(n - 1) \o "]", v |-> value.kids[n].v]>>)

\* flatten(value, prefix) as the flattener is defined: the record of a mapping, of
\* a sequence, and of any other value, which is a leaf under the current path
flatten_def(value, prefix) ==
    IF value.t = "d" THEN dict(children_def(value, prefix, Len(value.kids)))
    ELSE IF value.t = "l" THEN dict(elements_def(value, prefix, Len(value.kids)))
    ELSE <<[k |-> prefix, v |-> value]>>

\* C14 (SpecFlatten), the claim: for every structured value, a mapping or not, the
\* call returns, and returns the record of the definition.
C14_AsDefined ==
    pc5 \in {"done", "crashed"} =>
        /\ pc5 = "done"
        /\ flattened = flatten_def(loaded, "")

====
